---------------------------- MODULE Spec2Model ----------------------------
(***************************************************************************)
(* A model of MC_in_terminal: the voxel World (src/src/world.py), the DDA  *)
(* ray traversals and the direction-field builder (src/src/raycast.py,     *)
(* src/src/renderer.py), the Player (src/src/player.py) and the frames of  *)
(* the game loop (src/main.py).                                            *)
(*                                                                         *)
(* Floats are modelled as fixed-point integers: a coordinate v stands for  *)
(* the real number v / SCALE.  Every constant of src/src/config.py that    *)
(* the model uses (0.01, 0.05, 1.5, ...) is a whole number of units, and   *)
(* a quotient or a product is rounded to the nearest unit, as a float      *)
(* operation rounds to the nearest float.                                  *)
(***************************************************************************)
EXTENDS Integers, Sequences, FiniteSets, TLC

VARIABLES
    blocks,     \* World.blocks: blocks[z][y][x], a dense Z x Y x X grid
    phase,      \* "new" after World.__init__, "ready" after generate_ground
    call,       \* the last World operation called, with its arguments
    ret,        \* what that operation returned
    nops,       \* number of World operations called so far
    ray,        \* the running traversal: origin, direction, pos, steps, pc, result
    directions, \* Raycaster.directions: which list instance it is, and its view
    frames,     \* number of get_picture calls so far
    player,     \* Player: pos and view
    keys,       \* InputHandler.keystate: the keys of the last input snapshot
    tick,       \* the last Player.update: its number and the position between its steps
    game,       \* Game: running, current_block, current_block_char, and where run() is
    target,     \* the running target resolution: origin, direction, pos, steps, pc, result
    access,     \* the last blocks[z][y][x] made by a traversal: its indices and position
    shown       \* the grid as it was when Game.update last returned

\* The variables of the game loop.
loopVars == <<player, keys, tick, game, shown>>

vars == <<blocks, phase, call, ret, nops, ray, directions, frames,
          player, keys, tick, game, target, access, shown>>

---------------------------------------------------------------------------
(* src/src/config.py *)

X_BLOCKS == 20
Y_BLOCKS == 20
Z_BLOCKS == 10

EMPTY_BLOCK == " "
GROUND_BLOCK == "@"
HIGHLIGHT_BLOCK == "o"
BORDER_CHAR == "-"

\* Fixed-point units per block.
SCALE == 100 * 100

\* 0.05 and 0.01 blocks
BLOCK_BORDER_SIZE == (5 * SCALE) \div 100
RAY_EPSILON == SCALE \div 100

\* 0.1 radians, in fixed-point units per radian
TILT_SPEED == SCALE \div 10

\* 1.5 blocks and 0.30 blocks
EYE_HEIGHT == (15 * SCALE) \div 10
MOVE_SPEED == (30 * SCALE) \div 100

---------------------------------------------------------------------------
(* Python's numbers and lists *)

Abs(v) == IF v < 0 THEN -v ELSE v

Min(a, b) == IF b < a THEN b ELSE a

Max(a, b) == IF b > a THEN b ELSE a

\* int(v) of a float: truncation toward zero, in blocks.
PyInt(v) == IF v >= 0 THEN v \div SCALE ELSE -((-v) \div SCALE)

\* n / d rounded to the nearest integer (halves away from zero), d # 0.
RoundDiv(n, d) ==
    LET q == (2 * Abs(n) + Abs(d)) \div (2 * Abs(d))
    IN  IF (n < 0) # (d < 0) THEN -q ELSE q

\* Float division and multiplication of two fixed-point numbers.
FDiv(a, b) == RoundDiv(a * SCALE, b)
FMul(a, b) == RoundDiv(a * b, SCALE)

\* round(v) of a float, in blocks: Python rounds halves to the even integer.
PyRound(v) ==
    LET f == v \div SCALE
        r == v % SCALE
    IN  IF 2 * r < SCALE THEN f
        ELSE IF 2 * r > SCALE THEN f + 1
        ELSE IF f % 2 = 0 THEN f ELSE f + 1

\* list[i] of a list of length n: a negative index counts from the end,
\* anything else out of range raises IndexError (-1 here).
PyIndex(n, i) ==
    IF 0 <= i /\ i < n THEN i
    ELSE IF -n <= i /\ i < 0 THEN i + n
    ELSE -1

IndexError == "IndexError"

\* blocks[z][y][x] as Python evaluates it.
GridRead(b, x, y, z) ==
    LET zi == PyIndex(Z_BLOCKS, z)
        yi == PyIndex(Y_BLOCKS, y)
        xi == PyIndex(X_BLOCKS, x)
    IN  IF zi = -1 \/ yi = -1 \/ xi = -1 THEN IndexError ELSE b[zi][yi][xi]

\* blocks[z][y][x] = v as Python evaluates it (the grid is unchanged when it
\* raises).
GridWrite(b, x, y, z, v) ==
    LET zi == PyIndex(Z_BLOCKS, z)
        yi == PyIndex(Y_BLOCKS, y)
        xi == PyIndex(X_BLOCKS, x)
    IN  IF zi = -1 \/ yi = -1 \/ xi = -1 THEN b
        ELSE [b EXCEPT ![zi][yi][xi] = v]

GridWriteRaises(x, y, z) ==
    PyIndex(Z_BLOCKS, z) = -1 \/ PyIndex(Y_BLOCKS, y) = -1 \/ PyIndex(X_BLOCKS, x) = -1

---------------------------------------------------------------------------
(* src/src/vector.py *)

Vector(x, y, z) == [x |-> x, y |-> y, z |-> z]

\* Vector.__add__ and Vector.__mul__
VecAdd(v, w) == Vector(v.x + w.x, v.y + w.y, v.z + w.z)
VecMul(v, scalar) == Vector(FMul(v.x, scalar), FMul(v.y, scalar), FMul(v.z, scalar))

Vector2(psi, phi) == [psi |-> psi, phi |-> phi]

\* Python's None and a value that is not None.
None == [some |-> FALSE, v |-> Vector(0, 0, 0)]
Some(v) == [some |-> TRUE, v |-> v]

\* math.pi, in fixed-point units per radian.
PI == (31416 * SCALE) \div (100 * 100)

\* The angle in (-PI, PI] that differs from a by a multiple of 2 * PI.
WrapAngle(a) == LET r == a % (2 * PI) IN IF r > PI THEN r - 2 * PI ELSE r

\* The cosine and sine series for |x| <= PI / 2, in Horner form, to x^8 and
\* to x^9.
CosSeries(x) ==
    LET x2 == FMul(x, x)
        t4 == SCALE - RoundDiv(x2, 56)
        t3 == SCALE - RoundDiv(FMul(x2, t4), 30)
        t2 == SCALE - RoundDiv(FMul(x2, t3), 12)
    IN  SCALE - RoundDiv(FMul(x2, t2), 2)

SinSeries(x) ==
    LET x2 == FMul(x, x)
        s4 == SCALE - RoundDiv(x2, 72)
        s3 == SCALE - RoundDiv(FMul(x2, s4), 42)
        s2 == SCALE - RoundDiv(FMul(x2, s3), 20)
        s1 == SCALE - RoundDiv(FMul(x2, s2), 6)
    IN  FMul(x, s1)

\* math.cos and math.sin of a fixed-point angle.
Cos(a) ==
    LET r == Abs(WrapAngle(a))
    IN  IF 2 * r > PI THEN -CosSeries(PI - r) ELSE CosSeries(r)

Sin(a) ==
    LET r == WrapAngle(a)
    IN  IF 2 * r > PI THEN SinSeries(PI - r)
        ELSE IF 2 * r < -PI THEN SinSeries(-PI - r)
        ELSE SinSeries(r)

angles_to_vect(angles) ==
    Vector(FMul(Cos(angles.psi), Cos(angles.phi)),
           FMul(Cos(angles.psi), Sin(angles.phi)),
           Sin(angles.psi))

---------------------------------------------------------------------------
(* src/src/world.py *)

\* World.__init__: every cell empty.
EmptyWorld ==
    [z \in 0..(Z_BLOCKS - 1) |->
        [y \in 0..(Y_BLOCKS - 1) |->
            [x \in 0..(X_BLOCKS - 1) |-> EMPTY_BLOCK]]]

\* A loop that runs one layer too far.
GroundLayersInclusive(ground_height) == 0..Min(ground_height, Z_BLOCKS)

\* range(min(ground_height, Z_BLOCKS)): the layers the z-loop visits.
GroundLayers(ground_height) == 0..(Min(ground_height, Z_BLOCKS) - 1)

\* generate_ground: the loops over range(X_BLOCKS), range(Y_BLOCKS) and the
\* layers assign GROUND_BLOCK to each visited cell once, every other cell
\* keeps its content.
generate_ground(b, ground_height) ==
    [z \in 0..(Z_BLOCKS - 1) |->
        [y \in 0..(Y_BLOCKS - 1) |->
            [x \in 0..(X_BLOCKS - 1) |->
                IF z \in GroundLayers(ground_height)
                THEN GROUND_BLOCK
                ELSE b[z][y][x]]]]

\* A bounds check that forgets the lower bounds.
is_valid_position_upper_only(x, y, z) ==
    x < X_BLOCKS /\ y < Y_BLOCKS /\ z < Z_BLOCKS

is_valid_position(x, y, z) ==
    /\ 0 <= x /\ x < X_BLOCKS
    /\ 0 <= y /\ y < Y_BLOCKS
    /\ 0 <= z /\ z < Z_BLOCKS

get_block(b, x, y, z) ==
    IF ~is_valid_position(x, y, z) THEN EMPTY_BLOCK ELSE GridRead(b, x, y, z)

\* set_block: the grid after the call, and whether the call raised.
set_block(b, x, y, z, block) ==
    IF is_valid_position(x, y, z)
    THEN [blocks |-> GridWrite(b, x, y, z, block),
          ret |-> IF GridWriteRaises(x, y, z) THEN IndexError ELSE "None"]
    ELSE [blocks |-> b, ret |-> "None"]

is_empty(b, x, y, z) == get_block(b, x, y, z) = EMPTY_BLOCK

\* A removal that does not look at the cell's content.
remove_block_any(b, x, y, z) ==
    IF is_valid_position(x, y, z)
    THEN [blocks |-> GridWrite(b, x, y, z, EMPTY_BLOCK), ret |-> "True"]
    ELSE [blocks |-> b, ret |-> "False"]

remove_block(b, x, y, z) ==
    IF is_valid_position(x, y, z) /\ ~is_empty(b, x, y, z)
    THEN [blocks |-> GridWrite(b, x, y, z, EMPTY_BLOCK),
          ret |-> IF GridWriteRaises(x, y, z) THEN IndexError ELSE "True"]
    ELSE [blocks |-> b, ret |-> "False"]

\* place_block, lines 104-114: the six face distances, indexed as in the code.
FaceDists(pos) ==
    LET x == PyInt(pos.x)
        y == PyInt(pos.y)
        z == PyInt(pos.z)
    IN  [i \in 0..5 |->
            CASE i = 0 -> Abs((x + 1) * SCALE - pos.x)
              [] i = 1 -> Abs(pos.x - x * SCALE)
              [] i = 2 -> Abs((y + 1) * SCALE - pos.y)
              [] i = 3 -> Abs(pos.y - y * SCALE)
              [] i = 4 -> Abs((z + 1) * SCALE - pos.z)
              [] i = 5 -> Abs(pos.z - z * SCALE)]

\* A comparison that lets a later face of equal distance win.
CloserOrEqualFace(d, m) == d <= m

\* place_block, lines 119-122: one iteration replaces the minimum when
\* dists[i] is strictly smaller.
CloserFace(d, m) == d < m

\* place_block, lines 117-122: the index of the closest face.
RECURSIVE MinIdxLoop(_, _, _, _)
MinIdxLoop(dists, i, min_idx, min_dist) ==
    IF i >= 6 THEN min_idx
    ELSE IF CloserFace(dists[i], min_dist)
         THEN MinIdxLoop(dists, i + 1, i, dists[i])
         ELSE MinIdxLoop(dists, i + 1, min_idx, min_dist)

MinIdx(pos) == LET dists == FaceDists(pos) IN MinIdxLoop(dists, 1, 0, dists[0])

\* place_block, lines 125-127
FaceDx == [i \in 0..5 |-> CASE i = 0 -> 1 [] i = 1 -> -1 [] OTHER -> 0]
FaceDy == [i \in 0..5 |-> CASE i = 2 -> 1 [] i = 3 -> -1 [] OTHER -> 0]
FaceDz == [i \in 0..5 |-> CASE i = 4 -> 1 [] i = 5 -> -1 [] OTHER -> 0]

\* place_block, lines 129-131: the cell the block goes to.
PlaceTarget(pos) ==
    LET i == MinIdx(pos)
    IN  Vector(PyInt(pos.x) + FaceDx[i], PyInt(pos.y) + FaceDy[i], PyInt(pos.z) + FaceDz[i])

\* A placement that writes without the bounds check.
place_block_unchecked(b, pos, block) ==
    LET t == PlaceTarget(pos)
    IN  [blocks |-> GridWrite(b, t.x, t.y, t.z, block),
         ret |-> IF GridWriteRaises(t.x, t.y, t.z) THEN IndexError ELSE "True"]

place_block(b, pos, block) ==
    LET t == PlaceTarget(pos)
    IN  IF is_valid_position(t.x, t.y, t.z)
        THEN [blocks |-> GridWrite(b, t.x, t.y, t.z, block),
              ret |-> IF GridWriteRaises(t.x, t.y, t.z) THEN IndexError ELSE "True"]
        ELSE [blocks |-> b, ret |-> "False"]

---------------------------------------------------------------------------
(* src/src/raycast.py *)

\* A bounds test that forgets the lower bounds.
ray_outside_upper_only(pos) ==
    \/ pos.x >= X_BLOCKS * SCALE
    \/ pos.y >= Y_BLOCKS * SCALE
    \/ pos.z >= Z_BLOCKS * SCALE

ray_outside(pos) ==
    \/ pos.x >= X_BLOCKS * SCALE
    \/ pos.y >= Y_BLOCKS * SCALE
    \/ pos.z >= Z_BLOCKS * SCALE
    \/ pos.x < 0
    \/ pos.y < 0
    \/ pos.z < 0

\* on_block_border, lines 108-113: one axis is near an integer.
NearBorder(v) == Abs(v - PyRound(v) * SCALE) < BLOCK_BORDER_SIZE

BorderCount(pos) ==
    (IF NearBorder(pos.x) THEN 1 ELSE 0)
    + (IF NearBorder(pos.y) THEN 1 ELSE 0)
    + (IF NearBorder(pos.z) THEN 1 ELSE 0)

\* A border test that is content with one axis.
on_block_border_face(pos) == BorderCount(pos) >= 1

\* A border test that asks for all three axes.
on_block_border_corner(pos) == BorderCount(pos) >= 3

on_block_border(pos) == BorderCount(pos) >= 2

\* raytrace, lines 146-149 (and 151-154, 156-159): the distance to the next
\* boundary along one axis, if that axis moves.
AxisDist(dist, p, d) ==
    IF d > RAY_EPSILON THEN Min(dist, FDiv(PyInt(p + SCALE) * SCALE - p, d))
    ELSE IF d < -RAY_EPSILON THEN Min(dist, FDiv(PyInt(p) * SCALE - p, d))
    ELSE dist

\* raytrace, lines 144-159: dist starts at 2.0.
StepDist(pos, direction) ==
    AxisDist(AxisDist(AxisDist(2 * SCALE, pos.x, direction.x),
                      pos.y, direction.y),
             pos.z, direction.z)

\* A step that stops on the boundary instead of past it.
RayAdvanceNoEps(pos, direction) ==
    VecAdd(pos, VecMul(direction, StepDist(pos, direction)))

\* raytrace, line 162
RayAdvance(pos, direction) ==
    VecAdd(pos, VecMul(direction, StepDist(pos, direction) + RAY_EPSILON))

\* Raycaster.__init__: self.directions = None.
NoDirections == [id |-> 0, psi |-> 0, phi |-> 0]

\* init_directions: a new list is built from the view on every call (lines
\* 64-73) and stored (line 75); the list stored before is never consulted.
\* A list instance is named by the number of lists built so far; the unit
\* vectors it holds are a function of the view it was built from.
init_directions(cached, view) ==
    [id |-> cached.id + 1, psi |-> view.psi, phi |-> view.phi]

\* raytrace, lines 134-135: the cell read in an iteration.
RayCell(b, pos) == GridRead(b, PyInt(pos.x), PyInt(pos.y), PyInt(pos.z))

\* raytrace, lines 137-141: what a hit returns.
RayHit(c, pos) == IF on_block_border(pos) THEN BORDER_CHAR ELSE c

\* get_current_block_pos, lines 231-232: the cell read in an iteration.
TargetCell(b, pos) == GridRead(b, PyInt(pos.x), PyInt(pos.y), PyInt(pos.z))

\* A step that stops on the boundary instead of past it.
TargetAdvanceNoEps(pos, direction) ==
    VecAdd(pos, VecMul(direction, StepDist(pos, direction)))

\* get_current_block_pos, lines 238-256: dist is computed as in raytrace
\* (the lines repeat 144-159), then the step forward.
TargetAdvance(pos, direction) ==
    VecAdd(pos, VecMul(direction, StepDist(pos, direction) + RAY_EPSILON))

\* get_current_block_pos: one test of the while condition (line 230) and, if
\* it holds, one loop body (lines 231-256), on the traversal t.
TargetStep(b, t) ==
    IF ray_outside(t.pos)
    THEN [t EXCEPT !.pc = "done", !.result = None]
    ELSE IF TargetCell(b, t.pos) # EMPTY_BLOCK
         THEN [t EXCEPT !.pc = "done", !.result = Some(t.pos)]
         ELSE [t EXCEPT !.pos = TargetAdvance(t.pos, t.direction), !.steps = @ + 1]

\* get_current_block: the same for its loop (lines 183-209), which returns
\* the cell (x, y, z) instead of the position.
BlockStep(b, t) ==
    IF ray_outside(t.pos)
    THEN [t EXCEPT !.pc = "done", !.result = None]
    ELSE LET x == PyInt(t.pos.x)
             y == PyInt(t.pos.y)
             z == PyInt(t.pos.z)
         IN  IF GridRead(b, x, y, z) # EMPTY_BLOCK
             THEN [t EXCEPT !.pc = "done", !.result = Some(Vector(x, y, z))]
             ELSE [t EXCEPT !.pos = VecAdd(t.pos, VecMul(t.direction,
                                        StepDist(t.pos, t.direction) + RAY_EPSILON)),
                            !.steps = @ + 1]

---------------------------------------------------------------------------
(* src/src/player.py *)

\* Player.__init__ with the default z: on top of four layers of ground.
Player(x, y) ==
    [pos |-> Vector(x, y, 4 * SCALE + EYE_HEIGHT), view |-> Vector2(0, 0)]

\* The 0.01 of lines 49 and 57.
FootDelta == SCALE \div 100

\* The 0.1 of lines 87-89 and the 1.5 of line 110.
ClampMargin == SCALE \div 10
PitchLimit == (15 * SCALE) \div 10

\* _apply_gravity: the position after the step.
apply_gravity(b, pos) ==
    LET x == PyInt(pos.x)
        y == PyInt(pos.y)
        z_below == PyInt(pos.z - EYE_HEIGHT - FootDelta)
    IN  IF 0 <= z_below /\ z_below < Z_BLOCKS /\ is_empty(b, x, y, z_below)
        THEN [pos EXCEPT !.z = @ - SCALE]
        ELSE pos

\* A collision test that looks at the cell below the feet.
apply_collision_below(b, pos) ==
    LET x == PyInt(pos.x)
        y == PyInt(pos.y)
        z_at == PyInt(pos.z - EYE_HEIGHT - FootDelta)
    IN  IF 0 <= z_at /\ z_at < Z_BLOCKS /\ ~is_empty(b, x, y, z_at)
        THEN [pos EXCEPT !.z = @ + SCALE]
        ELSE pos

\* _apply_collision: the position after the step.
apply_collision(b, pos) ==
    LET x == PyInt(pos.x)
        y == PyInt(pos.y)
        z_at == PyInt(pos.z - EYE_HEIGHT + FootDelta)
    IN  IF 0 <= z_at /\ z_at < Z_BLOCKS /\ ~is_empty(b, x, y, z_at)
        THEN [pos EXCEPT !.z = @ + SCALE]
        ELSE pos

\* One `if key in keys` branch of _process_movement: the position moved by
\* (ddx, ddy) when the key is held.
MoveStep(pos, held, ddx, ddy) ==
    IF held THEN [pos EXCEPT !.x = @ + ddx, !.y = @ + ddy] ELSE pos

\* _process_movement, lines 66-84: the keys i, k, j and l in turn.
MoveBy(pos, dx, dy, k) ==
    MoveStep(MoveStep(MoveStep(MoveStep(pos, "i" \in k, dx, dy),
                               "k" \in k, -dx, -dy),
                      "j" \in k, dy, -dx),
             "l" \in k, -dy, dx)

\* _process_movement: MOVE_SPEED * direction.x and MOVE_SPEED * direction.y,
\* the two steps of lines 68-69, 73-74, 78-79 and 83-84.
MoveAlong(pos, direction, k) ==
    MoveBy(pos, FMul(MOVE_SPEED, direction.x), FMul(MOVE_SPEED, direction.y), k)

\* _process_movement, lines 64-84: the four movement keys in turn.
MoveByKeys(pos, view, k) == MoveAlong(pos, angles_to_vect(view), k)

\* A clamp that forgets the lower bounds.
ClampPosUpperOnly(pos) ==
    Vector(Min(X_BLOCKS * SCALE - ClampMargin, pos.x),
           Min(Y_BLOCKS * SCALE - ClampMargin, pos.y),
           Min(Z_BLOCKS * SCALE - ClampMargin, pos.z))

\* _process_movement, lines 87-89
ClampPos(pos) ==
    Vector(Max(ClampMargin, Min(X_BLOCKS * SCALE - ClampMargin, pos.x)),
           Max(ClampMargin, Min(Y_BLOCKS * SCALE - ClampMargin, pos.y)),
           Max(EYE_HEIGHT, Min(Z_BLOCKS * SCALE - ClampMargin, pos.z)))

process_movement(pos, view, k) == ClampPos(MoveByKeys(pos, view, k))

\* _process_view: the four rotation keys in turn, then the pitch clamp.
process_view(view, k) ==
    LET psi == view.psi + (IF "w" \in k THEN TILT_SPEED ELSE 0)
                        - (IF "s" \in k THEN TILT_SPEED ELSE 0)
        phi == view.phi + (IF "d" \in k THEN TILT_SPEED ELSE 0)
                        - (IF "a" \in k THEN TILT_SPEED ELSE 0)
    IN  Vector2(Max(-PitchLimit, Min(PitchLimit, psi)), phi)

\* Player.update: the position after each of its steps, and the view.  The
\* movement reads the view before the rotation changes it.
update(p, b, k) ==
    LET g == apply_gravity(b, p.pos)
        c == apply_collision(b, g)
    IN  [gravity |-> g,
         collision |-> c,
         moved |-> MoveByKeys(c, p.view, k),
         player |-> [pos |-> process_movement(c, p.view, k),
                     view |-> process_view(p.view, k)]]

get_direction(p) == angles_to_vect(p.view)

---------------------------------------------------------------------------
(* The World under a bounded sequence of calls *)

\* How many World operations follow world generation.
MaxOps == 2

\* generate_ground arguments tried: none, the game's 4, and past the top.
GroundHeights == {0, 4, Z_BLOCKS + 1}

\* Cell coordinates tried: inside, on both sides outside along each axis, and
\* negative ones that a Python list would wrap.
ProbeCells ==
    { Vector(5, 5, 3), Vector(4, 5, 5),
      Vector(X_BLOCKS - 1, Y_BLOCKS - 1, Z_BLOCKS - 1),
      Vector(-1, 5, 3), Vector(X_BLOCKS, 5, 3),
      Vector(5, -1, 3), Vector(5, Y_BLOCKS, 3),
      Vector(5, 5, -1), Vector(5, 5, Z_BLOCKS),
      Vector(-X_BLOCKS, -Y_BLOCKS, -Z_BLOCKS) }

\* Block identities written by the game: a placed block and the highlight.
ProbeBlocks == {GROUND_BLOCK, HIGHLIGHT_BLOCK}

\* Hit positions tried (fixed point): a cell centre, a centre moved onto or
\* next to each face, and hits in the cells at the edge of the world.
Half == SCALE \div 2
HitPositions ==
    { Vector(5 * SCALE, 5 * SCALE + Half, 5 * SCALE + Half),
      Vector(5 * SCALE + Half, 5 * SCALE + Half, 5 * SCALE + Half),
      Vector(5 * SCALE + Half, 5 * SCALE + Half, 4 * SCALE - RAY_EPSILON),
      Vector(5 * SCALE + Half, 5 * SCALE, 3 * SCALE + Half),
      Vector(5 * SCALE + Half, 6 * SCALE - RAY_EPSILON, 3 * SCALE + Half),
      Vector(5 * SCALE + Half, 5 * SCALE + Half, 3 * SCALE),
      Vector(5 * SCALE + RAY_EPSILON, 5 * SCALE + RAY_EPSILON, 3 * SCALE + RAY_EPSILON),
      Vector(0, 5 * SCALE + Half, 3 * SCALE + Half),
      Vector(X_BLOCKS * SCALE - RAY_EPSILON, 5 * SCALE + Half, 3 * SCALE + Half),
      Vector(5 * SCALE + Half, 5 * SCALE + Half, 0),
      Vector(5 * SCALE + Half, 5 * SCALE + Half, Z_BLOCKS * SCALE - RAY_EPSILON) }

NoCall == [op |-> "none", c |-> Vector(0, 0, 0), block |-> EMPTY_BLOCK, h |-> 0]
NoRay ==
    [pc |-> "idle", origin |-> Vector(0, 0, 0), direction |-> Vector(0, 0, 0),
     pos |-> Vector(0, 0, 0), steps |-> 0, result |-> EMPTY_BLOCK]

\* No Player constructed, no update called, no Game running, no target
\* resolution started, no grid access made.
NoPlayer == [pos |-> Vector(0, 0, 0), view |-> Vector2(0, 0)]
NoTick ==
    [n |-> 0, before |-> Vector(0, 0, 0), gravity |-> Vector(0, 0, 0),
     collision |-> Vector(0, 0, 0), moved |-> Vector(0, 0, 0)]
NoGame ==
    [pc |-> "off", running |-> FALSE, current_block |-> None,
     current_block_char |-> "None", block_pos |-> None,
     pos |-> Vector(0, 0, 0), direction |-> Vector(0, 0, 0)]
NoTarget ==
    [pc |-> "idle", origin |-> Vector(0, 0, 0), direction |-> Vector(0, 0, 0),
     pos |-> Vector(0, 0, 0), steps |-> 0, result |-> None]
NoAccess ==
    [n |-> 0, by |-> "none", x |-> 0, y |-> 0, z |-> 0, pos |-> Vector(0, 0, 0)]

\* A traversal called with (pos, direction): pos = pos.copy().
Traversal(pos, direction) ==
    [pc |-> "loop", origin |-> pos, direction |-> direction,
     pos |-> pos, steps |-> 0, result |-> None]

\* A traversal's loop run until it returns, or until it has made limit steps.
RECURSIVE TargetRun(_, _, _)
TargetRun(b, t, limit) ==
    LET n == TargetStep(b, t)
    IN  IF n.pc = "done" \/ t.steps >= limit THEN n ELSE TargetRun(b, n, limit)

RECURSIVE BlockRun(_, _, _)
BlockRun(b, t, limit) ==
    LET n == BlockStep(b, t)
    IN  IF n.pc = "done" \/ t.steps >= limit THEN n ELSE BlockRun(b, n, limit)

InitWorld ==
    /\ blocks = EmptyWorld
    /\ phase = "new"
    /\ call = NoCall
    /\ ret = "None"
    /\ nops = 0
    /\ ray = NoRay
    /\ directions = NoDirections
    /\ frames = 0
    /\ player = NoPlayer
    /\ keys = {}
    /\ tick = NoTick
    /\ game = NoGame
    /\ target = NoTarget
    /\ access = NoAccess
    /\ shown = <<>>

GenerateGround ==
    /\ phase = "new"
    /\ \E h \in GroundHeights :
        /\ blocks' = generate_ground(blocks, h)
        /\ call' = [NoCall EXCEPT !.op = "generate_ground", !.h = h]
    /\ phase' = "ready"
    /\ ret' = "None"
    /\ UNCHANGED <<nops, ray, directions, frames, target, access, loopVars>>

GetBlock ==
    /\ phase = "ready" /\ nops < MaxOps
    /\ \E c \in ProbeCells :
        /\ ret' = get_block(blocks, c.x, c.y, c.z)
        /\ call' = [NoCall EXCEPT !.op = "get_block", !.c = c]
    /\ nops' = nops + 1
    /\ UNCHANGED <<blocks, phase, ray, directions, frames, target, access, loopVars>>

SetBlock ==
    /\ phase = "ready" /\ nops < MaxOps
    /\ \E c \in ProbeCells, block \in ProbeBlocks :
        LET r == set_block(blocks, c.x, c.y, c.z, block)
        IN  /\ blocks' = r.blocks
            /\ ret' = r.ret
            /\ call' = [NoCall EXCEPT !.op = "set_block", !.c = c, !.block = block]
    /\ nops' = nops + 1
    /\ UNCHANGED <<phase, ray, directions, frames, target, access, loopVars>>

RemoveBlock ==
    /\ phase = "ready" /\ nops < MaxOps
    /\ \E c \in ProbeCells :
        LET r == remove_block(blocks, c.x, c.y, c.z)
        IN  /\ blocks' = r.blocks
            /\ ret' = r.ret
            /\ call' = [NoCall EXCEPT !.op = "remove_block", !.c = c]
    /\ nops' = nops + 1
    /\ UNCHANGED <<phase, ray, directions, frames, target, access, loopVars>>

PlaceBlock ==
    /\ phase = "ready" /\ nops < MaxOps
    /\ \E pos \in HitPositions, block \in ProbeBlocks :
        LET r == place_block(blocks, pos, block)
        IN  /\ blocks' = r.blocks
            /\ ret' = r.ret
            /\ call' = [NoCall EXCEPT !.op = "place_block", !.c = pos, !.block = block]
    /\ nops' = nops + 1
    /\ UNCHANGED <<phase, ray, directions, frames, target, access, loopVars>>

NextWorld ==
    \/ GenerateGround
    \/ GetBlock
    \/ SetBlock
    \/ RemoveBlock
    \/ PlaceBlock

SpecWorld == InitWorld /\ [][NextWorld]_vars

---------------------------------------------------------------------------
(* The DDA traversal, one loop iteration per step *)

\* X_BLOCKS + Y_BLOCKS + Z_BLOCKS, the number of grid planes a ray can cross.
ExtentSum == X_BLOCKS + Y_BLOCKS + Z_BLOCKS

\* Iterations explored past ExtentSum before the model stops following a ray.
StepSlack == 5
MaxSteps == ExtentSum + StepSlack

\* A sequence of (cell, block) writes applied with set_block.
RECURSIVE Edited(_, _)
Edited(b, edits) ==
    IF edits = <<>> THEN b
    ELSE LET e == Head(edits)
         IN  Edited(set_block(b, e[1].x, e[1].y, e[1].z, e[2]).blocks, Tail(edits))

GroundWorld == generate_ground(EmptyWorld, 4)

\* The ground with a shaft at column (0,0) under a floating block, column
\* (10,10) emptied, and a placed block at (5,5,5).
EditedWorld ==
    Edited(GroundWorld,
           << <<Vector(0, 0, 3), EMPTY_BLOCK>>, <<Vector(0, 0, 2), EMPTY_BLOCK>>,
              <<Vector(0, 0, 7), HIGHLIGHT_BLOCK>>,
              <<Vector(10, 10, 3), EMPTY_BLOCK>>, <<Vector(10, 10, 2), EMPTY_BLOCK>>,
              <<Vector(10, 10, 1), EMPTY_BLOCK>>, <<Vector(10, 10, 0), EMPTY_BLOCK>>,
              <<Vector(5, 5, 5), GROUND_BLOCK>> >>)

RayWorlds == {EmptyWorld, GroundWorld, EditedWorld}

\* n hundredths of a block.
Hundredths(n) == n * (SCALE \div 100)

\* Ray origins inside the world, in hundredths of a block.
RayOrigins ==
    { Vector(Hundredths(50), Hundredths(50), Hundredths(399)),
      Vector(Hundredths(500), Hundredths(500), Hundredths(550)),
      Vector(Hundredths(50), Hundredths(50), Hundredths(950)),
      Vector(Hundredths(1050), Hundredths(1050), Hundredths(550)),
      Vector(Hundredths(502), Hundredths(550), Hundredths(550)),
      Vector(Hundredths(550), Hundredths(550), Hundredths(350)),
      Vector(Hundredths(502), Hundredths(502), Hundredths(398)),
      Vector(Hundredths(1950), Hundredths(1950), Hundredths(950)),
      Vector(Hundredths(550), Hundredths(550), Hundredths(550)) }

\* Directions of length one: the axes, and vectors whose squares sum to one.
UnitDirections ==
    { Vector(0, 0, -SCALE), Vector(0, 0, SCALE),
      Vector(SCALE, 0, 0), Vector(-SCALE, 0, 0), Vector(0, -SCALE, 0),
      Vector(Hundredths(60), Hundredths(80), 0),
      Vector(Hundredths(-60), 0, Hundredths(-80)),
      Vector(Hundredths(36), Hundredths(-48), Hundredths(-80)),
      Vector(Hundredths(-48), Hundredths(-80), Hundredths(-36)),
      Vector(Hundredths(2), 0, -(SCALE - 2)) }

\* Directions that are not of length one: zero, a short vector along x, and
\* a long diagonal.
OtherDirections ==
    { Vector(0, 0, 0),
      Vector(Hundredths(2), 0, 0),
      Vector(SCALE, SCALE, -SCALE) }

RayDirections == UnitDirections \cup OtherDirections

\* Ray origins outside the world: less than one block below zero on x, where
\* int() gives index 0; further out on x and on z, where the index would be
\* a negative one that a list wraps; and above the top.
OutsideOrigins ==
    { Vector(Hundredths(-50), Hundredths(550), Hundredths(550)),
      Vector(Hundredths(-150), Hundredths(550), Hundredths(550)),
      Vector(Hundredths(550), Hundredths(550), Hundredths(-150)),
      Vector(Hundredths(550), Hundredths(550), Hundredths(1050)) }

\* blocks[z][y][x] with the indices int(pos.x), int(pos.y), int(pos.z).
Accessed(by, pos) ==
    [n |-> access.n + 1, by |-> by,
     x |-> PyInt(pos.x), y |-> PyInt(pos.y), z |-> PyInt(pos.z), pos |-> pos]

InitRay ==
    /\ blocks \in RayWorlds
    /\ phase = "ready"
    /\ call = NoCall
    /\ ret = "None"
    /\ nops = 0
    /\ ray = NoRay
    /\ directions = NoDirections
    /\ frames = 0
    /\ player = NoPlayer
    /\ keys = {}
    /\ tick = NoTick
    /\ game = NoGame
    /\ target = NoTarget
    /\ access = NoAccess
    /\ shown = <<>>

\* raytrace is called: line 130, pos = pos.copy().
Raytrace ==
    /\ ray.pc = "idle"
    /\ \E origin \in RayOrigins \cup OutsideOrigins, direction \in RayDirections :
        ray' = [pc |-> "loop", origin |-> origin, direction |-> direction,
                pos |-> origin, steps |-> 0, result |-> EMPTY_BLOCK]
    /\ UNCHANGED <<blocks, phase, call, ret, nops, directions, frames, target, access, loopVars>>

\* One test of the while condition (line 133) and, if it holds, one loop body
\* (lines 134-162).
RayIter ==
    /\ ray.pc = "loop"
    /\ IF ray_outside(ray.pos)
       THEN ray' = [ray EXCEPT !.pc = "done", !.result = EMPTY_BLOCK]
       ELSE LET c == RayCell(blocks, ray.pos)
            IN  IF c # EMPTY_BLOCK
                THEN ray' = [ray EXCEPT !.pc = "done", !.result = RayHit(c, ray.pos)]
                ELSE /\ ray.steps < MaxSteps
                     /\ ray' = [ray EXCEPT !.pos = RayAdvance(ray.pos, ray.direction),
                                           !.steps = ray.steps + 1]
    /\ access' = IF ray_outside(ray.pos) THEN access ELSE Accessed("raytrace", ray.pos)
    /\ UNCHANGED <<blocks, phase, call, ret, nops, directions, frames, target, loopVars>>

\* get_current_block_pos is called with the arguments raytrace was called
\* with, after raytrace has returned.
GetCurrentBlockPos ==
    /\ ray.pc = "done" /\ target.pc = "idle"
    /\ target' = Traversal(ray.origin, ray.direction)
    /\ UNCHANGED <<blocks, phase, call, ret, nops, ray, directions, frames, access, loopVars>>

\* One test of its while condition and, if it holds, one loop body.
TargetIter ==
    /\ target.pc = "loop"
    /\ target' = TargetStep(blocks, target)
    /\ target'.steps <= MaxSteps
    /\ access' = IF ray_outside(target.pos) THEN access
                 ELSE Accessed("get_current_block_pos", target.pos)
    /\ UNCHANGED <<blocks, phase, call, ret, nops, ray, directions, frames, loopVars>>

\* get_current_block is called with the same arguments and runs to its
\* return.
GetCurrentBlock ==
    /\ target.pc = "done"
    /\ LET r == BlockRun(blocks, Traversal(target.origin, target.direction), MaxSteps)
       IN  /\ call' = [NoCall EXCEPT !.op = "get_current_block",
                                     !.c = r.result.v, !.h = r.steps]
           /\ ret' = IF r.pc # "done" THEN "loop"
                     ELSE IF r.result.some THEN "cell" ELSE "None"
    /\ target' = [target EXCEPT !.pc = "returned"]
    /\ UNCHANGED <<blocks, phase, nops, ray, directions, frames, access, loopVars>>

NextRay ==
    \/ Raytrace
    \/ RayIter
    \/ GetCurrentBlockPos
    \/ TargetIter
    \/ GetCurrentBlock

SpecRay == InitRay /\ [][NextRay]_vars

---------------------------------------------------------------------------
(* Frames: Renderer.get_picture builds the direction field *)

\* get_picture calls followed.
MaxFrames == 4

\* Views range over -ViewSteps..ViewSteps tilt increments of pitch and of yaw.
ViewSteps == 2

Views ==
    {[psi |-> i * TILT_SPEED, phi |-> j * TILT_SPEED] :
        i \in (-ViewSteps)..ViewSteps, j \in (-ViewSteps)..ViewSteps}

InitCache ==
    /\ blocks = GroundWorld
    /\ phase = "ready"
    /\ call = NoCall
    /\ ret = "None"
    /\ nops = 0
    /\ ray = NoRay
    /\ directions = NoDirections
    /\ frames = 0
    /\ player = NoPlayer
    /\ keys = {}
    /\ tick = NoTick
    /\ game = NoGame
    /\ target = NoTarget
    /\ access = NoAccess
    /\ shown = <<>>

\* get_picture, line 58: directions = self.raycaster.init_directions(view).
\* The pixel loop that follows reads the grid and the directions only.
GetPicture ==
    /\ frames < MaxFrames
    /\ \E view \in Views : directions' = init_directions(directions, view)
    /\ frames' = frames + 1
    /\ UNCHANGED <<blocks, phase, call, ret, nops, ray, target, access, loopVars>>

NextCache == GetPicture

SpecCache == InitCache /\ [][NextCache]_vars

---------------------------------------------------------------------------
(* Ticks: Player.update under any keys *)

\* Player.update calls followed.
MaxTicks == 2

MoveKeys == {"i", "k", "j", "l"}
ViewKeys == {"w", "s", "a", "d"}

\* Key snapshots tried: every combination of the movement keys, each rotation
\* key alone, the four rotation keys together, and all eight keys together.
PlayerKeySets ==
    (SUBSET MoveKeys) \cup {{v} : v \in ViewKeys} \cup {ViewKeys, MoveKeys \cup ViewKeys}

\* The ground with a column of five more blocks at (15,15), up to z = 8.
TowerWorld ==
    Edited(GroundWorld,
           << <<Vector(15, 15, 4), GROUND_BLOCK>>, <<Vector(15, 15, 5), GROUND_BLOCK>>,
              <<Vector(15, 15, 6), GROUND_BLOCK>>, <<Vector(15, 15, 7), GROUND_BLOCK>>,
              <<Vector(15, 15, 8), GROUND_BLOCK>> >>)

\* Worlds and players a run can be in when a tick starts: the game's start;
\* one block above the ground; in the low and in the high corner of the
\* world, the latter looking up as far as the pitch goes; at the bottom of an
\* emptied column; one block above the floor of a shaft two blocks deep; on
\* a tower with a block placed at the feet; in a world without ground.
PlayerStarts ==
    { [blocks |-> GroundWorld, player |-> Player(5 * SCALE, 5 * SCALE)],
      [blocks |-> GroundWorld,
       player |-> [pos |-> Vector(Hundredths(750), Hundredths(750), Hundredths(650)),
                   view |-> Vector2(0, 0)]],
      [blocks |-> GroundWorld,
       player |-> [pos |-> Vector(ClampMargin, ClampMargin, Hundredths(550)),
                   view |-> Vector2(0, 0)]],
      [blocks |-> GroundWorld,
       player |-> [pos |-> Vector(Hundredths(1990), Hundredths(1990), Hundredths(550)),
                   view |-> Vector2(PitchLimit, 8 * TILT_SPEED)]],
      [blocks |-> EditedWorld,
       player |-> [pos |-> Vector(Hundredths(1050), Hundredths(1050), EYE_HEIGHT),
                   view |-> Vector2(-PitchLimit, 0)]],
      [blocks |-> EditedWorld,
       player |-> [pos |-> Vector(Hundredths(50), Hundredths(50), Hundredths(450)),
                   view |-> Vector2(0, 0)]],
      [blocks |-> TowerWorld,
       player |-> [pos |-> Vector(Hundredths(1550), Hundredths(1550), Hundredths(950)),
                   view |-> Vector2(0, -4 * TILT_SPEED)]],
      [blocks |-> EmptyWorld, player |-> Player(5 * SCALE, 5 * SCALE)] }

InitPlayer ==
    /\ \E s \in PlayerStarts : blocks = s.blocks /\ player = s.player
    /\ phase = "ready"
    /\ call = NoCall
    /\ ret = "None"
    /\ nops = 0
    /\ ray = NoRay
    /\ directions = NoDirections
    /\ frames = 0
    /\ keys = {}
    /\ tick = NoTick
    /\ game = NoGame
    /\ target = NoTarget
    /\ access = NoAccess
    /\ shown = <<>>

\* Player.update(world, input_handler) with the key snapshot k.
Update ==
    /\ tick.n < MaxTicks
    /\ \E k \in PlayerKeySets :
        LET u == update(player, blocks, k)
        IN  /\ keys' = k
            /\ player' = u.player
            /\ tick' = [n |-> tick.n + 1, before |-> player.pos, gravity |-> u.gravity,
                        collision |-> u.collision, moved |-> u.moved]
    /\ UNCHANGED <<blocks, phase, call, ret, nops, ray, directions, frames,
                   game, target, access, shown>>

NextPlayer == Update

SpecPlayer == InitPlayer /\ [][NextPlayer]_vars

---------------------------------------------------------------------------
(* The game loop: src/main.py, Game.run, one step of a frame per action *)

\* Key snapshots tried: none; look down while stepping forward, or to the
\* right; remove; place; remove and place together; and two that hold a
\* quit key.
GameKeySets ==
    { {}, {"i", "s"}, {"l", "s"}, {"x"}, {" "}, {"x", " "}, {"q"}, {"Q", "x"} }

\* InputHandler.process_input, lines 44-45
should_quit(k) == "q" \in k \/ "Q" \in k

\* A loop that does not look at the flag after the input.
AfterInputIgnoringQuit(running) == "player_update"

\* Game.run, lines 141-146: where the frame goes after process_input.
AfterInput(running) == IF ~running THEN "stopped" ELSE "player_update"

\* Game.render, lines 119 and 128: there is a block to highlight.
Highlighting(g) == g.current_block.some /\ g.current_block_char # "None"

\* Game.render, lines 119-121
render_highlight(b, g) ==
    IF Highlighting(g)
    THEN GridWrite(b, g.current_block.v.x, g.current_block.v.y, g.current_block.v.z,
                   HIGHLIGHT_BLOCK)
    ELSE b

\* A render that leaves the highlight in the grid.
render_no_restore(b, g) == b

\* Game.render, lines 128-130
render_restore(b, g) ==
    IF Highlighting(g)
    THEN GridWrite(b, g.current_block.v.x, g.current_block.v.y, g.current_block.v.z,
                   g.current_block_char)
    ELSE b

\* The state after Game.init: the ground generated, the player constructed,
\* running set, and run() about to enter its loop.
Init ==
    /\ blocks = generate_ground(EmptyWorld, 4)
    /\ phase = "ready"
    /\ call = [NoCall EXCEPT !.op = "generate_ground", !.h = 4]
    /\ ret = "None"
    /\ nops = 0
    /\ ray = NoRay
    /\ directions = NoDirections
    /\ frames = 0
    /\ player = Player(5 * SCALE, 5 * SCALE)
    /\ keys = {}
    /\ tick = NoTick
    /\ game = [NoGame EXCEPT !.pc = "process_input", !.running = TRUE]
    /\ target = NoTarget
    /\ access = NoAccess
    /\ shown = <<>>

\* Game.process_input (lines 75-80) after the loop test of line 138, and the
\* test of line 143.
ProcessInput ==
    /\ game.pc = "process_input" /\ game.running
    /\ frames < MaxFrames
    /\ \E k \in GameKeySets :
        /\ keys' = k
        /\ game' = [game EXCEPT !.running = ~should_quit(k),
                                !.pc = AfterInput(~should_quit(k))]
    /\ UNCHANGED <<blocks, phase, call, ret, nops, ray, directions, frames,
                   player, tick, target, access, shown>>

\* Game.update, line 85: self.player.update(self.world, self.input_handler).
PlayerUpdate ==
    /\ game.pc = "player_update"
    /\ LET u == update(player, blocks, keys)
       IN  /\ player' = u.player
           /\ tick' = [n |-> tick.n + 1, before |-> player.pos, gravity |-> u.gravity,
                       collision |-> u.collision, moved |-> u.moved]
    /\ game' = [game EXCEPT !.pc = "resolve"]
    /\ UNCHANGED <<blocks, phase, call, ret, nops, ray, directions, frames,
                   keys, target, access, shown>>

\* Game.update, lines 88-97 and 108-110: get_current_block_pos runs to its
\* return; a position found gives current_block and, through
\* World.get_block, current_block_char; with None update returns here.
ResolveTarget ==
    /\ game.pc = "resolve"
    /\ LET pos == player.pos
           direction == get_direction(player)
           r == TargetRun(blocks, Traversal(pos, direction), MaxSteps)
           c == Vector(PyInt(r.result.v.x), PyInt(r.result.v.y), PyInt(r.result.v.z))
       IN  /\ r.pc = "done"
           /\ target' = r
           /\ IF r.result.some
              THEN /\ game' = [game EXCEPT !.pc = "edit",
                                           !.pos = pos, !.direction = direction,
                                           !.block_pos = r.result,
                                           !.current_block = Some(c),
                                           !.current_block_char =
                                               get_block(blocks, c.x, c.y, c.z)]
                   /\ call' = [NoCall EXCEPT !.op = "get_block", !.c = c]
                   /\ ret' = get_block(blocks, c.x, c.y, c.z)
                   /\ nops' = nops + 1
                   /\ shown' = shown
              ELSE /\ game' = [game EXCEPT !.pc = "highlight",
                                           !.pos = pos, !.direction = direction,
                                           !.block_pos = None,
                                           !.current_block = None,
                                           !.current_block_char = "None"]
                   /\ shown' = blocks
                   /\ UNCHANGED <<call, ret, nops>>
    /\ UNCHANGED <<blocks, phase, ray, directions, frames, player, keys, tick, access>>

\* Game.update, lines 99-107: remove the block looked at, else place one
\* against it, else neither; then update returns.
EditWorld ==
    /\ game.pc = "edit"
    /\ IF "x" \in keys
       THEN LET c == game.current_block.v
                r == remove_block(blocks, c.x, c.y, c.z)
            IN  /\ blocks' = r.blocks
                /\ ret' = r.ret
                /\ call' = [NoCall EXCEPT !.op = "remove_block", !.c = c]
                /\ nops' = nops + 1
                /\ game' = [game EXCEPT !.pc = "highlight",
                                        !.current_block_char = "None",
                                        !.current_block = None]
       ELSE IF " " \in keys
       THEN LET r == place_block(blocks, game.block_pos.v, GROUND_BLOCK)
            IN  /\ blocks' = r.blocks
                /\ ret' = r.ret
                /\ call' = [NoCall EXCEPT !.op = "place_block", !.c = game.block_pos.v,
                                          !.block = GROUND_BLOCK]
                /\ nops' = nops + 1
                /\ game' = [game EXCEPT !.pc = "highlight"]
       ELSE /\ game' = [game EXCEPT !.pc = "highlight"]
            /\ UNCHANGED <<blocks, call, ret, nops>>
    /\ shown' = blocks'
    /\ UNCHANGED <<phase, ray, directions, frames, player, keys, tick, target, access>>

\* Game.render, lines 114-121: the highlight is written into the grid.
RenderHighlight ==
    /\ game.pc = "highlight"
    /\ blocks' = render_highlight(blocks, game)
    /\ game' = [game EXCEPT !.pc = "picture"]
    /\ UNCHANGED <<phase, call, ret, nops, ray, directions, frames,
                   player, keys, tick, target, access, shown>>

\* Game.render, lines 124-125: get_picture builds the direction field and
\* traces a ray for every pixel, draw_ascii shows the picture; both only read
\* the grid.
RenderPicture ==
    /\ game.pc = "picture"
    /\ directions' = init_directions(directions, player.view)
    /\ frames' = frames + 1
    /\ game' = [game EXCEPT !.pc = "restore"]
    /\ UNCHANGED <<blocks, phase, call, ret, nops, ray,
                   player, keys, tick, target, access, shown>>

\* Game.render, lines 128-130: the character is written back; render returns
\* and the frame ends.
RenderRestore ==
    /\ game.pc = "restore"
    /\ blocks' = render_restore(blocks, game)
    /\ game' = [game EXCEPT !.pc = "process_input"]
    /\ UNCHANGED <<phase, call, ret, nops, ray, directions, frames,
                   player, keys, tick, target, access, shown>>

Next ==
    \/ ProcessInput
    \/ PlayerUpdate
    \/ ResolveTarget
    \/ EditWorld
    \/ RenderHighlight
    \/ RenderPicture
    \/ RenderRestore

Spec == Init /\ [][Next]_vars

---------------------------------------------------------------------------
(* Properties of the World *)

AllCells ==
    {Vector(x, y, z) : x \in 0..(X_BLOCKS - 1), y \in 0..(Y_BLOCKS - 1),
                       z \in 0..(Z_BLOCKS - 1)}

\* A coordinate outside [0,X_BLOCKS) x [0,Y_BLOCKS) x [0,Z_BLOCKS).
OutOfBounds(c) ==
    \/ c.x < 0 \/ c.x >= X_BLOCKS
    \/ c.y < 0 \/ c.y >= Y_BLOCKS
    \/ c.z < 0 \/ c.z >= Z_BLOCKS

\* Grid a equals grid b in every cell other than c (c may lie outside).
OnlyChanged(b, a, c) ==
    IF OutOfBounds(c) THEN a = b
    ELSE a = [b EXCEPT ![c.z][c.y][c.x] = a[c.z][c.y][c.x]]

\* The step is a call of the World operation named op.
Called(op) == nops' = nops + 1 /\ call'.op = op

\* C1: with a coordinate outside the world, get_block returns the empty
\* identity, set_block and remove_block leave every cell of the grid as it
\* was, remove_block returns False, and none of them raises.
C1_OutOfBoundsTotal ==
    [][ /\ (Called("get_block") /\ OutOfBounds(call'.c))
            => ret' = EMPTY_BLOCK
        /\ (Called("set_block") /\ OutOfBounds(call'.c))
            => (blocks' = blocks /\ ret' = "None")
        /\ (Called("remove_block") /\ OutOfBounds(call'.c))
            => (blocks' = blocks /\ ret' = "False") ]_vars

\* A set_block at x = -1 was called over ground, and the cell a wrapped index
\* would reach still holds the ground.
C1_Witness ==
    /\ call.op = "set_block" /\ call.c = Vector(-1, 5, 3)
    /\ call.block = HIGHLIGHT_BLOCK
    /\ blocks[3][5][X_BLOCKS - 1] = GROUND_BLOCK

\* C2: after generate_ground(h) on a fresh world every cell below
\* min(h, Z_BLOCKS) is ground and every other cell is empty; after
\* generate_ground(4) the layers 0..3 are ground and the layers 4..9 empty.
C2_GroundLayers ==
    call.op = "generate_ground" =>
        /\ \A c \in AllCells :
              blocks[c.z][c.y][c.x] =
                  IF c.z < Min(call.h, Z_BLOCKS) THEN GROUND_BLOCK ELSE EMPTY_BLOCK
        /\ call.h = 4 =>
              \A c \in AllCells :
                  /\ c.z < 4 => blocks[c.z][c.y][c.x] = GROUND_BLOCK
                  /\ c.z >= 4 => blocks[c.z][c.y][c.x] = EMPTY_BLOCK

C2_Witness ==
    /\ call.op = "generate_ground" /\ call.h = 4
    /\ blocks[3][0][0] = GROUND_BLOCK
    /\ blocks[4][0][0] = EMPTY_BLOCK

\* C3: remove_block returns False and changes nothing when the coordinate is
\* out of bounds or the cell is empty; otherwise it empties exactly that cell
\* and returns True; a second remove_block of the same cell returns False.
C3_RemoveBlock ==
    [][ /\ Called("remove_block") =>
            LET c == call'.c
            IN  IF OutOfBounds(c) \/ blocks[c.z][c.y][c.x] = EMPTY_BLOCK
                THEN ret' = "False" /\ blocks' = blocks
                ELSE /\ ret' = "True"
                     /\ blocks'[c.z][c.y][c.x] = EMPTY_BLOCK
                     /\ OnlyChanged(blocks, blocks', c)
        /\ (Called("remove_block") /\ call.op = "remove_block" /\ call'.c = call.c)
            => ret' = "False" ]_vars

\* The second of two calls removed (5,5,3) and returned False in a world that
\* has ground: the cell was ground, and only the first call, a remove_block
\* of it, can have emptied it.
C3_Witness ==
    /\ nops = 2 /\ call.op = "remove_block" /\ call.c = Vector(5, 5, 3)
    /\ ret = "False"
    /\ blocks[0][0][0] = GROUND_BLOCK
    /\ blocks[3][5][5] = EMPTY_BLOCK

\* floor of a coordinate, in blocks.
Floor(v) == v \div SCALE

\* The cell that contains a position.
CellOf(pos) == Vector(Floor(pos.x), Floor(pos.y), Floor(pos.z))

\* Distance from pos to face i of its cell, faces numbered +x,-x,+y,-y,+z,-z.
FaceDistance(pos, i) ==
    LET c == CellOf(pos)
    IN  CASE i = 0 -> (c.x + 1) * SCALE - pos.x
          [] i = 1 -> pos.x - c.x * SCALE
          [] i = 2 -> (c.y + 1) * SCALE - pos.y
          [] i = 3 -> pos.y - c.y * SCALE
          [] i = 4 -> (c.z + 1) * SCALE - pos.z
          [] i = 5 -> pos.z - c.z * SCALE

\* The first face, in that order, whose distance is minimal.
NearestFace(pos) ==
    CHOOSE i \in 0..5 :
        /\ \A j \in 0..5 : FaceDistance(pos, i) <= FaceDistance(pos, j)
        /\ \A j \in 0..(i - 1) : FaceDistance(pos, j) > FaceDistance(pos, i)

\* The neighbour of a cell across face i.
Neighbour(c, i) ==
    CASE i = 0 -> Vector(c.x + 1, c.y, c.z)
      [] i = 1 -> Vector(c.x - 1, c.y, c.z)
      [] i = 2 -> Vector(c.x, c.y + 1, c.z)
      [] i = 3 -> Vector(c.x, c.y - 1, c.z)
      [] i = 4 -> Vector(c.x, c.y, c.z + 1)
      [] i = 5 -> Vector(c.x, c.y, c.z - 1)

NearestNeighbour(pos) == Neighbour(CellOf(pos), NearestFace(pos))

\* The hit position (5.0, 5.5, 5.5).
BoundaryHit == Vector(5 * SCALE, 5 * SCALE + Half, 5 * SCALE + Half)

\* C4: place_block targets the neighbour of the hit cell across the nearest
\* face, the first of +x,-x,+y,-y,+z,-z among equally near ones: when that
\* neighbour is in the world it receives the block, when it is not the call
\* reports that nothing was placed; the hit (5.0,5.5,5.5) writes into (4,5,5)
\* and into no other cell.
C4_PlaceFace ==
    [][ Called("place_block") =>
            LET t == NearestNeighbour(call'.c)
            IN  /\ ~OutOfBounds(t) => blocks'[t.z][t.y][t.x] = call'.block
                /\ OutOfBounds(t) => ret' = "False"
                /\ OnlyChanged(blocks, blocks', t)
                /\ call'.c = BoundaryHit =>
                      /\ blocks'[5][5][4] = call'.block
                      /\ OnlyChanged(blocks, blocks', Vector(4, 5, 5)) ]_vars

\* The hit (5.0,5.5,5.5) placed a highlight block into the empty cell (4,5,5),
\* and the hit cell (5,5,5) is still empty.
C4_Witness ==
    /\ call.op = "place_block" /\ call.c = BoundaryHit
    /\ call.block = HIGHLIGHT_BLOCK /\ nops = 1
    /\ blocks[5][5][4] = HIGHLIGHT_BLOCK
    /\ blocks[5][5][5] = EMPTY_BLOCK

\* C5: place_block returns True exactly when the selected neighbour is in
\* bounds; then that one cell holds the block and every other cell, the hit
\* cell included, is unchanged; otherwise no cell changes and it returns False.
C5_PlaceFrame ==
    [][ Called("place_block") =>
            LET t == NearestNeighbour(call'.c)
                h == CellOf(call'.c)
            IN  IF ~OutOfBounds(t)
                THEN /\ ret' = "True"
                     /\ blocks' = [blocks EXCEPT ![t.z][t.y][t.x] = call'.block]
                     /\ blocks'[h.z][h.y][h.x] = blocks[h.z][h.y][h.x]
                ELSE /\ ret' = "False"
                     /\ blocks' = blocks ]_vars

\* A hit on the x = 0 face of the world selected the neighbour at x = -1:
\* nothing was placed, and the cell a wrapped index would reach is untouched.
C5_Witness ==
    /\ call.op = "place_block" /\ call.c = Vector(0, 5 * SCALE + Half, 3 * SCALE + Half)
    /\ ret = "False" /\ nops = 1
    /\ blocks[3][5][X_BLOCKS - 1] = GROUND_BLOCK

---------------------------------------------------------------------------
(* Properties of the traversal *)

\* A position inside the world bounds.
InsideWorld(pos) ==
    /\ 0 <= pos.x /\ pos.x < X_BLOCKS * SCALE
    /\ 0 <= pos.y /\ pos.y < Y_BLOCKS * SCALE
    /\ 0 <= pos.z /\ pos.z < Z_BLOCKS * SCALE

\* The content of the cell that contains an inside position.
CellAt(b, pos) == b[Floor(pos.z)][Floor(pos.y)][Floor(pos.x)]

\* A direction of length one, to the precision of the fixed point.
IsUnit(d) == Abs(d.x * d.x + d.y * d.y + d.z * d.z - SCALE * SCALE) <= 2 * SCALE

\* The traversal of a started ray ends within ExtentSum steps, and it ends
\* on a non-empty cell or outside the world.
TerminatesInExtentSum ==
    /\ ray.steps <= ExtentSum
    /\ (ray.pc = "loop" /\ ray.steps = ExtentSum)
        => (~InsideWorld(ray.pos) \/ CellAt(blocks, ray.pos) # EMPTY_BLOCK)
    /\ ray.pc = "done"
        => \/ ~InsideWorld(ray.pos) /\ ray.result = EMPTY_BLOCK
           \/ /\ InsideWorld(ray.pos)
              /\ CellAt(blocks, ray.pos) # EMPTY_BLOCK
              /\ ray.result # EMPTY_BLOCK

\* C6 as stated: from an origin inside the world, with any non-zero direction,
\* raytrace ends, on a non-empty cell or outside the world, within
\* X_BLOCKS + Y_BLOCKS + Z_BLOCKS steps.
C6_NonZeroRayTerminates ==
    (ray.pc # "idle" /\ InsideWorld(ray.origin) /\ ray.direction # Vector(0, 0, 0))
        => TerminatesInExtentSum

\* C6 amended: from an origin inside the world, with any direction of length
\* one, raytrace ends, on a non-empty cell or outside the world, within
\* X_BLOCKS + Y_BLOCKS + Z_BLOCKS steps.
C6_UnitRayTerminates ==
    (ray.pc # "idle" /\ InsideWorld(ray.origin) /\ IsUnit(ray.direction))
        => TerminatesInExtentSum

\* A diagonal unit ray from the top corner of the empty world left the world
\* after crossing more than thirty planes.
C6_Witness ==
    /\ ray.pc = "done"
    /\ ray.direction = Vector(Hundredths(-48), Hundredths(-80), Hundredths(-36))
    /\ ray.origin = Vector(Hundredths(1950), Hundredths(1950), Hundredths(950))
    /\ ray.steps > 30
    /\ ~InsideWorld(ray.pos)

\* C7: with a direction that never advances the ray (the zero vector), from
\* an origin in an empty cell inside the world, the traversal takes at most
\* X_BLOCKS + Y_BLOCKS + Z_BLOCKS steps and then returns.
C7_DegenerateRayCapped ==
    ( /\ ray.pc # "idle"
      /\ InsideWorld(ray.origin)
      /\ CellAt(blocks, ray.origin) = EMPTY_BLOCK
      /\ RayAdvance(ray.origin, ray.direction) = ray.origin )
        => ray.steps <= ExtentSum

\* The distance of a coordinate to the nearest integer is below the border
\* threshold.
NearInteger(v) ==
    LET f == v % SCALE IN Min(f, SCALE - f) < BLOCK_BORDER_SIZE

NearAxes(pos) ==
    {a \in {"x", "y", "z"} :
        NearInteger(CASE a = "x" -> pos.x [] a = "y" -> pos.y [] a = "z" -> pos.z)}

\* C8: a traversal that stops on a non-empty cell returns the edge identity
\* if and only if the stopping position is within the border threshold of the
\* nearest integer on two or three axes, and the cell's identity otherwise.
C8_EdgeMarker ==
    (ray.pc = "done" /\ InsideWorld(ray.pos))
        => ray.result = IF Cardinality(NearAxes(ray.pos)) >= 2
                        THEN BORDER_CHAR
                        ELSE CellAt(blocks, ray.pos)

\* A ray that travelled stopped on a non-empty cell near an integer on exactly
\* two axes and returned the edge identity.
C8_Witness ==
    /\ ray.pc = "done" /\ ray.steps > 0
    /\ InsideWorld(ray.pos)
    /\ Cardinality(NearAxes(ray.pos)) = 2
    /\ ray.result = BORDER_CHAR

\* The identity of the first non-empty cell at or below cell c in its column,
\* empty if there is none.
FirstAtOrBelow(b, c) ==
    LET filled == {k \in 0..c.z : b[k][c.y][c.x] # EMPTY_BLOCK}
    IN  IF filled = {} THEN EMPTY_BLOCK
        ELSE b[CHOOSE k \in filled : \A j \in filled : j <= k][c.y][c.x]

Down == Vector(0, 0, -SCALE)

\* C9: a ray straight down from an origin inside the world whose x and y are
\* not near an integer returns the identity of the first non-empty cell at or
\* below the origin in its column, or empty if there is none; from
\* (0.5,0.5,3.99) over ground below z = 4 it returns the ground identity
\* without a step.
C9_DownRay ==
    ( /\ ray.pc = "done" /\ ray.direction = Down
      /\ InsideWorld(ray.origin)
      /\ ~NearInteger(ray.origin.x) /\ ~NearInteger(ray.origin.y) )
        => /\ ray.result = FirstAtOrBelow(blocks, CellOf(ray.origin))
           /\ ( /\ ray.origin = Vector(Hundredths(50), Hundredths(50), Hundredths(399))
                /\ blocks = GroundWorld )
                => (ray.result = GROUND_BLOCK /\ ray.steps = 0 /\ Floor(ray.pos.z) = 3)

\* A ray straight down the shaft at column (0,0) from z = 9.5 returned the
\* floating block at z = 7 after two steps.
C9_Witness ==
    /\ ray.pc = "done" /\ ray.direction = Down
    /\ ray.origin = Vector(Hundredths(50), Hundredths(50), Hundredths(950))
    /\ blocks = EditedWorld
    /\ ray.result = HIGHLIGHT_BLOCK
    /\ ray.steps = 2

\* C10: a get_picture call whose view angles equal those of the previous call
\* gets the cached direction field, the same instance, and the field is
\* rebuilt only when pitch or yaw differs from the cached view.
C10_DirectionCache ==
    [][ (frames' = frames + 1 /\ directions.id # 0)
            => ( directions'.id # directions.id
                   <=> (directions'.psi # directions.psi
                        \/ directions'.phi # directions.phi) ) ]_vars

---------------------------------------------------------------------------
(* Properties of the player *)

\* A Player.update has returned.
Ticked == tick.n > 0

\* The step is a Player.update.
Ticking == tick'.n = tick.n + 1

\* C11: after every Player.update, whatever the keys and the world, x is in
\* [0.1, X_BLOCKS - 0.1], y in [0.1, Y_BLOCKS - 0.1], z in
\* [EYE_HEIGHT, Z_BLOCKS - 0.1] and the pitch in [-1.5, 1.5].
C11_PlayerBounds ==
    Ticked =>
        /\ SCALE \div 10 <= player.pos.x
        /\ player.pos.x <= X_BLOCKS * SCALE - SCALE \div 10
        /\ SCALE \div 10 <= player.pos.y
        /\ player.pos.y <= Y_BLOCKS * SCALE - SCALE \div 10
        /\ EYE_HEIGHT <= player.pos.z
        /\ player.pos.z <= Z_BLOCKS * SCALE - SCALE \div 10
        /\ -(3 * SCALE) \div 2 <= player.view.psi
        /\ player.view.psi <= (3 * SCALE) \div 2

\* In one tick the player stepped out of the world on the low side of x and
\* was pushed by a block at the feet above the highest z, and the tick ended
\* with x = 0.1 or z = Z_BLOCKS - 0.1; in another the pitch keys were held at
\* the limit.
C11_Witness ==
    /\ Ticked
    /\ \/ tick.moved.x < 0 /\ player.pos.x = SCALE \div 10
       \/ tick.moved.z > Z_BLOCKS * SCALE /\ player.pos.z = Z_BLOCKS * SCALE - SCALE \div 10

\* The top of a block with nothing on it, under the column of pos: layer s - 1
\* of the column is solid and layer s is empty.
SurfaceUnder(b, pos, s) ==
    /\ 1 <= s /\ s < Z_BLOCKS
    /\ b[s - 1][Floor(pos.y)][Floor(pos.x)] # EMPTY_BLOCK
    /\ b[s][Floor(pos.y)][Floor(pos.x)] = EMPTY_BLOCK

\* The feet of a player at pos are h blocks above the surface s.
FeetAbove(b, pos, s, h) ==
    SurfaceUnder(b, pos, s) /\ pos.z = (s + h) * SCALE + EYE_HEIGHT

\* C12: a tick without movement keys and without a world edit takes a player
\* whose feet are one block above a solid surface (z = surface + EYE_HEIGHT
\* + 1) to z = surface + EYE_HEIGHT, x and y unchanged, and leaves the
\* position of a player whose feet are on the surface unchanged: the player
\* reaches the surface in one tick and stays there in every further one.
C12_SettlesOnGround ==
    [][ (Ticking /\ keys' \cap MoveKeys = {} /\ blocks' = blocks) =>
            \A s \in 1..(Z_BLOCKS - 1) :
                /\ FeetAbove(blocks, player.pos, s, 1)
                      => player'.pos = [player.pos EXCEPT !.z = s * SCALE + EYE_HEIGHT]
                /\ FeetAbove(blocks, player.pos, s, 0)
                      => player'.pos = player.pos ]_vars

\* The player who started at (7.5,7.5,6.5), one block above the ground, is at
\* z = 5.5 after two ticks without movement keys, where the second tick
\* started and ended.
C12_Witness ==
    /\ tick.n = 2 /\ keys \cap MoveKeys = {}
    /\ blocks = GroundWorld
    /\ tick.before = Vector(Hundredths(750), Hundredths(750), Hundredths(550))
    /\ player.pos = tick.before

\* C14: the gravity step of a tick decrements z by exactly 1 if and only if
\* the cell (floor(x), floor(y), floor(z - EYE_HEIGHT - 0.01)) is in bounds
\* and empty, and changes nothing otherwise; when z - EYE_HEIGHT - 0.01 is
\* negative the cell index is -1, out of bounds, and gravity leaves z as it is.
C14_GravityFloorCell ==
    Ticked =>
        LET p == tick.before
            c == Vector(Floor(p.x), Floor(p.y), Floor(p.z - EYE_HEIGHT - SCALE \div 100))
        IN  /\ IF ~OutOfBounds(c) /\ blocks[c.z][c.y][c.x] = EMPTY_BLOCK
               THEN tick.gravity = [p EXCEPT !.z = @ - SCALE]
               ELSE tick.gravity = p
            /\ p.z - EYE_HEIGHT - SCALE \div 100 < 0
                  => (c.z = -1 /\ tick.gravity.z = p.z)

---------------------------------------------------------------------------
(* Properties of target resolution and of the grid accesses *)

\* get_current_block_pos has returned.
Resolved == target.pc \in {"done", "returned"}

\* C13: for the origin, direction and grid of a raytrace that returned,
\* get_current_block_pos makes the same traversal: it stops after the same
\* steps at the same position, it returns a position if and only if raytrace
\* returned a non-empty character, that position lies in the cell where
\* raytrace stopped, and it returns None exactly when the ray is outside the
\* world bounds; get_current_block returns that cell, or None with it.
C13_TargetMatchesRaytrace ==
    /\ Resolved =>
          /\ target.steps = ray.steps /\ target.pos = ray.pos
          /\ target.result.some <=> ray.result # EMPTY_BLOCK
          /\ target.result.some =>
                /\ InsideWorld(target.result.v)
                /\ CellOf(target.result.v) = CellOf(ray.pos)
                /\ CellAt(blocks, target.result.v) # EMPTY_BLOCK
          /\ ~target.result.some <=> ~InsideWorld(target.pos)
    /\ target.pc = "returned" =>
          /\ ret # "loop" /\ call.h = target.steps
          /\ ret = "cell" <=> target.result.some
          /\ ret = "cell" => call.c = CellOf(target.result.v)

\* A ray that travelled stopped on a block's edge: raytrace returned the edge
\* character, get_current_block_pos the position and get_current_block the
\* cell that holds it.
C13_Witness ==
    /\ target.pc = "returned" /\ target.steps > 0
    /\ ray.result = BORDER_CHAR
    /\ target.result = Some(ray.pos)
    /\ ret = "cell" /\ call.c = CellOf(ray.pos)

\* C18: every blocks[z][y][x] of raytrace and of get_current_block_pos is made
\* at a position inside the world bounds, where ray_outside is false, with
\* 0 <= x < X_BLOCKS, 0 <= y < Y_BLOCKS and 0 <= z < Z_BLOCKS, so no
\* index is one that a list would wrap; and the indices int(block_pos.x),
\* int(block_pos.y), int(block_pos.z) that the frame loop takes from a
\* returned position are in these ranges too.
C18_AccessInBounds ==
    /\ access.n > 0 =>
          /\ InsideWorld(access.pos)
          /\ 0 <= access.x /\ access.x < X_BLOCKS
          /\ 0 <= access.y /\ access.y < Y_BLOCKS
          /\ 0 <= access.z /\ access.z < Z_BLOCKS
    /\ (Resolved /\ target.result.some) =>
          LET block_pos == target.result.v
          IN  /\ 0 <= PyInt(block_pos.x) /\ PyInt(block_pos.x) < X_BLOCKS
              /\ 0 <= PyInt(block_pos.y) /\ PyInt(block_pos.y) < Y_BLOCKS
              /\ 0 <= PyInt(block_pos.z) /\ PyInt(block_pos.z) < Z_BLOCKS

\* A traversal read cell x = 0 and then stopped at a position less than one
\* block below zero on x, where int() gives 0 again, without another access.
C18_Witness ==
    /\ Resolved
    /\ -SCALE < target.pos.x /\ target.pos.x < 0
    /\ target.steps > 0
    /\ access.by = "get_current_block_pos"
    /\ access.x = 0 /\ access.pos.x >= 0
    /\ access.n = ray.steps + target.steps

---------------------------------------------------------------------------
(* Properties of the game loop *)

\* The step is a call of one of World's writing operations.
WorldWrites == Called("set_block") \/ Called("place_block") \/ Called("remove_block")

\* C15: every change to a cell of the grid is made by a call of World's
\* set_block, place_block or remove_block: no step of Player.update, of the
\* raycaster or of the frame's render changes any cell.
C15_OnlyWorldWrites ==
    [][ blocks' # blocks => WorldWrites ]_vars

\* The steps of a frame that may follow one another.
FrameOrder ==
    { <<"process_input", "player_update">>, <<"process_input", "stopped">>,
      <<"player_update", "resolve">>,
      <<"resolve", "edit">>, <<"resolve", "highlight">>,
      <<"edit", "highlight">>,
      <<"highlight", "picture">>, <<"picture", "restore">>,
      <<"restore", "process_input">> }

\* C16: the steps of a frame follow one another as input snapshot,
\* Player.update, target resolution, at most one world edit, render.  The
\* keys change only in the snapshot and the player only in Player.update; the
\* resolution starts from the position and the direction the player has
\* after that update; remove_block or place_block is called only in the edit
\* step, which follows a resolution that found a target and precedes the
\* render, so not during or after it; and after a snapshot that holds a quit
\* key the frame stops with no update, no edit and no render.
C16_FrameOrder ==
    [][ /\ <<game.pc, game'.pc>> \in FrameOrder
        /\ keys' # keys => game.pc = "process_input"
        /\ (player' # player \/ tick' # tick) => game.pc = "player_update"
        /\ game.pc = "resolve" =>
              /\ tick.n = frames + 1
              /\ target'.origin = player.pos
              /\ target'.direction = angles_to_vect(player.view)
        /\ (Called("remove_block") \/ Called("place_block")) =>
              /\ game.pc = "edit" /\ game'.pc = "highlight"
              /\ target.result.some
              /\ frames = tick.n - 1
        /\ frames' # frames => game.pc = "picture"
        /\ (game.pc = "process_input" /\ ("q" \in keys' \/ "Q" \in keys')) =>
              /\ game'.pc = "stopped"
              /\ player' = player /\ tick' = tick
              /\ blocks' = blocks /\ frames' = frames
        /\ game.pc = "stopped" => UNCHANGED <<blocks, player, tick, frames>> ]_vars

\* The third frame updated the player, found a target, removed it and was
\* rendered, and the fourth read a quit key and stopped there.
C16_Witness ==
    /\ game.pc = "stopped" /\ should_quit(keys)
    /\ frames = 3 /\ tick.n = 3
    /\ call.op = "remove_block" /\ ret = "True"

\* No cell of b holds the highlight.
NoHighlight(b) == \A c \in AllCells : b[c.z][c.y][c.x] # HIGHLIGHT_BLOCK

\* C17: when Game.render returns, the grid is cell for cell the grid that
\* Game.update left in this frame: no cell holds the highlight between
\* frames, and a block that was targeted and not removed holds the identity
\* it had.
C17_HighlightTransient ==
    (game.pc = "process_input" /\ frames > 0) =>
        /\ blocks = shown
        /\ NoHighlight(blocks)
        /\ game.current_block.some =>
              LET c == game.current_block.v
              IN  blocks[c.z][c.y][c.x] = game.current_block_char

\* A frame that found a target and placed a block on the ground against it
\* has been rendered with the highlight, and the target holds the ground
\* again.
C17_Witness ==
    /\ game.pc = "process_input" /\ frames > 0
    /\ call.op = "place_block" /\ ret = "True"
    /\ blocks # GroundWorld
    /\ Highlighting(game)
    /\ game.current_block_char = GROUND_BLOCK
    /\ blocks[game.current_block.v.z][game.current_block.v.y][game.current_block.v.x]
           = GROUND_BLOCK

=============================================================================
